---- MODULE Spec2Model ----
(***************************************************************************)
(* Model of the sem6000 client engine: the notification reassembler        *)
(* (SEM6000Delegate), the frame codec and payload dispatcher               *)
(* (MessageParser) and the transaction/session engine (SEM6000).           *)
(*                                                                         *)
(* Bytes are naturals 0..255, byte strings are sequences of bytes.         *)
(* The BLE transport (bluepy) is the environment: it opens and drops the   *)
(* link and delivers reply fragments to handleNotification from within     *)
(* waitForNotifications.                                                   *)
(***************************************************************************)
EXTENDS Integers, Sequences, FiniteSets, Bags, TLC

\* ------------------------------------------------------------------ bounds
\* most fragments buffered during one wait (Spec)
MaxFrags == 2
\* most link drops the transport makes while one operation is running
MaxDrops == 1

\* ------------------------------------------------------------ byte strings
\* Python s[a:b] for 0 <= a, 0 <= b (indices clamp to the length)
Slice(s, a, b) ==
    LET hi == IF b < Len(s) THEN b ELSE Len(s)
    IN  IF hi <= a THEN <<>> ELSE [i \in 1..(hi - a) |-> s[a + i]]

\* Python s[-2:]
LastTwo(s) == Slice(s, IF Len(s) >= 2 THEN Len(s) - 2 ELSE 0, Len(s))

\* sum(s): the bytes as the counts of a bag, whose size is their sum
SumBytes(s) == BagCardinality([i \in {j \in DOMAIN s : s[j] > 0} |-> s[i]])

\* int.from_bytes(s, 'big')
RECURSIVE FromBytes(_)
FromBytes(s) ==
    IF s = <<>> THEN 0 ELSE FromBytes(SubSeq(s, 1, Len(s) - 1)) * 256 + s[Len(s)]

\* data = b''; for n in raw: data += n
RECURSIVE Concat(_)
Concat(frags) == IF frags = <<>> THEN <<>> ELSE frags[1] \o Concat(Tail(frags))

\* mutant of Weekdays: the bits tested are 1..7
Weekdays_from_one(mask) ==
    SelectSeq([i \in 1..7 |-> i - 1], LAMBDA w : (mask \div (2 ^ (w + 1))) % 2 = 1)

\* for w in range(7): if mask & 2**w: append(w)
Weekdays(mask) ==
    SelectSeq([i \in 1..7 |-> i - 1], LAMBDA w : (mask \div (2 ^ w)) % 2 = 1)

\* -------------------------------------------------------------- frame codec
NoPayload == <<>>

PayloadOk(p) == [err |-> "none", payload |-> p]
PayloadErr(e) == [err |-> e, payload |-> NoPayload]

\* mutant of parse_payload: the checksum is the plain sum of the payload
parse_payload_plain_sum(data) ==
    IF Slice(data, 0, 1) # <<15>> THEN PayloadErr("InvalidResponse")
    ELSE IF Len(data) < 2 THEN PayloadErr("IndexError")
    ELSE
      LET length_of_payload == data[2]
          payload == Slice(data, 2, 2 + length_of_payload - 1)
      IN  IF 2 + length_of_payload - 1 >= Len(data) THEN PayloadErr("IndexError")
          ELSE
            LET checksum_received == data[2 + length_of_payload]
                checksum == SumBytes(payload) % 256
            IN  IF checksum_received # checksum THEN PayloadErr("InvalidChecksum")
                ELSE IF Len(data) > 2 + length_of_payload
                        /\ Slice(data, 2 + length_of_payload, Len(data)) # <<255, 255>>
                     THEN PayloadErr("InvalidSuffix")
                ELSE PayloadOk(payload)

\* mutant of parse_payload: only the last two trailing bytes are compared
parse_payload_last_two(data) ==
    IF Slice(data, 0, 1) # <<15>> THEN PayloadErr("InvalidResponse")
    ELSE IF Len(data) < 2 THEN PayloadErr("IndexError")
    ELSE
      LET length_of_payload == data[2]
          payload == Slice(data, 2, 2 + length_of_payload - 1)
      IN  IF 2 + length_of_payload - 1 >= Len(data) THEN PayloadErr("IndexError")
          ELSE
            LET checksum_received == data[2 + length_of_payload]
                checksum == (1 + SumBytes(payload)) % 256
            IN  IF checksum_received # checksum THEN PayloadErr("InvalidChecksum")
                ELSE IF Len(data) > 2 + length_of_payload
                        /\ LastTwo(data) # <<255, 255>>
                     THEN PayloadErr("InvalidSuffix")
                ELSE PayloadOk(payload)

\* mutant of parse_payload: the payload is taken from the length byte on
parse_payload_from_length(data) ==
    IF Slice(data, 0, 1) # <<15>> THEN PayloadErr("InvalidResponse")
    ELSE IF Len(data) < 2 THEN PayloadErr("IndexError")
    ELSE
      LET length_of_payload == data[2]
          payload == Slice(data, 1, 2 + length_of_payload - 1)
      IN  IF 2 + length_of_payload - 1 >= Len(data) THEN PayloadErr("IndexError")
          ELSE
            LET checksum_received == data[2 + length_of_payload]
                checksum == (1 + SumBytes(payload)) % 256
            IN  IF checksum_received # checksum THEN PayloadErr("InvalidChecksum")
                ELSE IF Len(data) > 2 + length_of_payload
                        /\ Slice(data, 2 + length_of_payload, Len(data)) # <<255, 255>>
                     THEN PayloadErr("InvalidSuffix")
                ELSE PayloadOk(payload)

\* MessageParser._parse_payload
parse_payload(data) ==
    IF Slice(data, 0, 1) # <<15>> THEN PayloadErr("InvalidResponse")
    ELSE IF Len(data) < 2 THEN PayloadErr("IndexError")
    ELSE
      LET length_of_payload == data[2]
          payload == Slice(data, 2, 2 + length_of_payload - 1)
      IN  IF 2 + length_of_payload - 1 >= Len(data) THEN PayloadErr("IndexError")
          ELSE
            LET checksum_received == data[2 + length_of_payload]
                checksum == (1 + SumBytes(payload)) % 256
            IN  IF checksum_received # checksum THEN PayloadErr("InvalidChecksum")
                ELSE IF Len(data) > 2 + length_of_payload
                        /\ Slice(data, 2 + length_of_payload, Len(data)) # <<255, 255>>
                     THEN PayloadErr("InvalidSuffix")
                ELSE PayloadOk(payload)

\* ------------------------------------------------- payload catalog/dispatch
\* datetime.datetime.now().year, read by _parse_scheduler
NowYear == 2026

NoNotification == [kind |-> "None"]

Parsed(n) == [err |-> "none", expected |-> 0, actual |-> 0, n |-> n]
ParseErr(e) == [err |-> e, expected |-> 0, actual |-> 0, n |-> NoNotification]
\* InvalidPayloadLengthException(message_class, expected, actual)
InvalidPayloadLength(e, a) ==
    [err |-> "InvalidPayloadLength", expected |-> e, actual |-> a, n |-> NoNotification]

\* mutant of Ack: the notification is successful whatever the reply says
Ack_always(kind, ok) == [kind |-> kind, was_successful |-> TRUE]

\* a notification that carries only was_successful
Ack(kind, ok) == [kind |-> kind, was_successful |-> ok]

\* MessageParser._parse_scheduler
parse_scheduler(data) ==
    LET year_diff == NowYear - (NowYear % 100)
    IN  [is_active          |-> Slice(data, 0, 1) = <<1>>,
         is_action_turn_on  |-> Slice(data, 1, 2) = <<1>>,
         repeat_on_weekdays |-> Weekdays(FromBytes(Slice(data, 2, 3))),
         year   |-> FromBytes(Slice(data, 3, 4)) + year_diff,
         month  |-> FromBytes(Slice(data, 4, 5)),
         day    |-> FromBytes(Slice(data, 5, 6)),
         hour   |-> FromBytes(Slice(data, 6, 7)),
         minute |-> FromBytes(Slice(data, 7, 8))]

\* entry i of a 14 00 page fails its own checksum:
\* checksum_received != (sum(payload[4+12i:14+12i]) + 0x14) & 0xff
sub_checksum_mismatch(payload, i) ==
    FromBytes(Slice(payload, 14 + i * 12, 15 + i * 12))
        # (SumBytes(Slice(payload, 4 + i * 12, 14 + i * 12)) + 20) % 256

\* mutant of scheduler_entries: an entry that fails its checksum is left out
scheduler_entries_checked(payload) ==
    LET every == [j \in 1..((Len(payload) - 3) \div 12) |->
                    LET i == j - 1
                    IN  [slot_id   |-> FromBytes(Slice(payload, 3 + i * 12, 4 + i * 12)),
                         scheduler |-> parse_scheduler(Slice(payload, 4 + i * 12, 12 + i * 12)),
                         bad       |-> sub_checksum_mismatch(payload, i)]]
        kept == SelectSeq(every, LAMBDA e : ~e.bad)
    IN  [j \in 1..Len(kept) |-> [slot_id |-> kept[j].slot_id, scheduler |-> kept[j].scheduler]]

\* mutant of scheduler_entries: as many entries as byte 2 declares
scheduler_entries_declared(payload) ==
    [j \in 1..FromBytes(Slice(payload, 2, 3)) |->
        LET i == j - 1
        IN  [slot_id   |-> FromBytes(Slice(payload, 3 + i * 12, 4 + i * 12)),
             scheduler |-> parse_scheduler(Slice(payload, 4 + i * 12, 12 + i * 12))]]

\* the scheduler entries of a 14 00 page: one per 12 bytes after the 3-byte head
scheduler_entries(payload) ==
    [j \in 1..((Len(payload) - 3) \div 12) |->
        LET i == j - 1
        IN  [slot_id   |-> FromBytes(Slice(payload, 3 + i * 12, 4 + i * 12)),
             scheduler |-> parse_scheduler(Slice(payload, 4 + i * 12, 12 + i * 12))]]

\* mutant of consumption_list: the entries in the order transmitted
consumption_list_forward(payload, stride, width) ==
    LET k == (Len(payload) - 2) \div stride
    IN  [j \in 1..k |->
            LET i == j - 1
            IN  FromBytes(Slice(payload, 2 + stride * i, 2 + stride * i + width))]

\* consumptions.insert(0, value of entry i), entry i being `width` bytes of a
\* `stride`-byte record: the last transmitted entry comes first
consumption_list(payload, stride, width) ==
    LET k == (Len(payload) - 2) \div stride
    IN  [j \in 1..k |->
            LET i == k - j
            IN  FromBytes(Slice(payload, 2 + stride * i, 2 + stride * i + width))]

\* the None that stands for the still running month / day
NoneValue == -1

\* mutant of insert_none: nothing is put in front
insert_none_missing(consumptions) == consumptions

\* consumptions.insert(0, None)
insert_none(consumptions) == <<NoneValue>> \o consumptions

\* MessageParser.parse, after _parse_payload: the prefix chain in source order
parse_dispatch(payload) ==
    LET p2 == Slice(payload, 0, 2)
        p3 == Slice(payload, 0, 3)
        b2 == Slice(payload, 2, 3)
        b3 == Slice(payload, 3, 4)
        n  == Len(payload)
    IN  IF p2 = <<23, 0>> /\ b3 = <<0>> THEN
            IF n # 5 THEN InvalidPayloadLength(5, n)
            ELSE Parsed(Ack("AuthorizationNotification", b2 = <<0>>))
        ELSE IF p2 = <<23, 0>> /\ b3 = <<1>> THEN
            IF n # 5 THEN InvalidPayloadLength(5, n)
            ELSE Parsed(Ack("ChangePinNotification", b2 = <<0>>))
        ELSE IF p2 = <<23, 0>> /\ b3 = <<2>> THEN
            IF n # 5 THEN InvalidPayloadLength(5, n)
            ELSE Parsed(Ack("ResetPinNotification", b2 = <<0>>))
        ELSE IF p2 = <<3, 0>> THEN
            IF n # 3 THEN InvalidPayloadLength(3, n)
            ELSE Parsed(Ack("PowerSwitchNotification", b2 = <<0>>))
        ELSE IF p3 = <<15, 0, 5>> THEN
            IF n # 4 THEN InvalidPayloadLength(4, n)
            ELSE Parsed(Ack("LEDSwitchNotification", TRUE))
        ELSE IF p2 = <<1, 0>> THEN
            IF n # 3 THEN InvalidPayloadLength(3, n)
            ELSE Parsed(Ack("SynchronizeDateAndTimeNotification", b2 = <<0>>))
        ELSE IF p2 = <<16, 0>> THEN
            IF n # 13 THEN InvalidPayloadLength(13, n)
            ELSE Parsed([kind |-> "RequestedSettingsNotification",
                         is_reduced_period |-> b2 = <<1>>,
                         normal_price_in_cent |-> FromBytes(Slice(payload, 3, 4)),
                         reduced_period_price_in_cent |-> FromBytes(Slice(payload, 4, 5)),
                         reduced_period_start_time_in_minutes |-> FromBytes(Slice(payload, 5, 7)),
                         reduced_period_end_time_in_minutes |-> FromBytes(Slice(payload, 7, 9)),
                         is_led_active |-> Slice(payload, 9, 10) = <<1>>,
                         power_limit_in_watt |-> FromBytes(Slice(payload, 11, 13))])
        ELSE IF p3 = <<5, 0, 0>> /\ n = 3 THEN
            Parsed(Ack("PowerLimitSetNotification", TRUE))
        ELSE IF p3 = <<15, 0, 4>> THEN
            IF n # 4 THEN InvalidPayloadLength(4, n)
            ELSE Parsed(Ack("PricesSetNotification", TRUE))
        ELSE IF p3 = <<15, 0, 1>> THEN
            IF n # 4 THEN InvalidPayloadLength(4, n)
            ELSE Parsed(Ack("ReducedPeriodSetNotification", TRUE))
        ELSE IF p2 = <<9, 0>> THEN
            IF n # 13 THEN InvalidPayloadLength(13, n)
            ELSE Parsed([kind |-> "RequestedTimerStatusNotification",
                         is_timer_running |-> b2 # <<0>>,
                         is_action_turn_on |-> b2 = <<1>>,
                         target_second |-> payload[4],
                         target_minute |-> payload[5],
                         target_hour |-> payload[6],
                         target_day |-> payload[7],
                         target_month |-> payload[8],
                         target_year |-> payload[9],
                         original_timer_length_in_seconds |-> FromBytes(Slice(payload, 9, 12))])
        ELSE IF p2 = <<8, 0>> THEN
            IF n # 3 THEN InvalidPayloadLength(3, n)
            ELSE Parsed(Ack("TimerSetNotification", TRUE))
        ELSE IF p2 = <<20, 0>> THEN
            IF n < 3 THEN InvalidPayloadLength(3, n)
            ELSE IF (n - 3) % 12 # 0 THEN InvalidPayloadLength(n + 12 - ((n - 3) % 12), n)
            ELSE Parsed([kind |-> "SchedulerRequestedNotification",
                         number_of_schedulers |-> FromBytes(b2),
                         scheduler_entries |-> scheduler_entries(payload)])
        ELSE IF p2 = <<19, 0>> THEN
            Parsed(Ack("SchedulerSetNotification", b2 = <<0>>))
        ELSE IF p2 = <<22, 0>> THEN
            Parsed([kind |-> "RandomModeStatusRequestedNotification",
                    is_active |-> b2 = <<1>>,
                    active_on_weekdays |-> Weekdays(FromBytes(b3)),
                    start_hour |-> FromBytes(Slice(payload, 4, 5)),
                    start_minute |-> FromBytes(Slice(payload, 5, 6)),
                    end_hour |-> FromBytes(Slice(payload, 6, 7)),
                    end_minute |-> FromBytes(Slice(payload, 7, 8))])
        ELSE IF p2 = <<21, 0>> THEN
            Parsed(Ack("RandomModeSetNotification", b2 = <<0>>))
        ELSE IF p2 = <<4, 0>> THEN
            Parsed([kind |-> "MeasurementRequestedNotification",
                    is_power_active |-> b2 = <<1>>,
                    power_in_milliwatt |-> FromBytes(Slice(payload, 3, 6)),
                    voltage_in_volt |-> FromBytes(Slice(payload, 6, 7)),
                    current_in_milliampere |-> FromBytes(Slice(payload, 7, 9)),
                    frequency_in_hertz |-> FromBytes(Slice(payload, 9, 10)),
                    total_consumption_in_kilowatt_hour |-> FromBytes(Slice(payload, 12, 16))])
        ELSE IF p2 = <<12, 0>> THEN
            Parsed([kind |-> "ConsumptionOfLast12MonthsRequestedNotification",
                    consumption |-> insert_none(consumption_list(payload, 4, 3))])
        ELSE IF p2 = <<11, 0>> THEN
            Parsed([kind |-> "ConsumptionOfLast30DaysRequestedNotification",
                    consumption |-> insert_none(consumption_list(payload, 4, 3))])
        ELSE IF p2 = <<10, 0>> THEN
            Parsed([kind |-> "ConsumptionOfLast23HoursRequestedNotification",
                    consumption |-> consumption_list(payload, 2, 2)])
        ELSE IF p3 = <<15, 0, 2>> THEN
            Parsed(Ack("ResetConsumptionNotification", TRUE))
        ELSE IF p3 = <<15, 0, 0>> THEN
            Parsed(Ack("FactoryResetNotification", TRUE))
        ELSE IF p2 = <<2, 0>> THEN
            Parsed(Ack("DeviceNameSetNotification", TRUE))
        ELSE IF p2 = <<17, 0>> THEN
            Parsed([kind |-> "DeviceSerialRequestedNotification",
                    serial |-> Slice(payload, 2, IF n >= 2 THEN n - 2 ELSE 0)])
        ELSE ParseErr("UnsupportedMessage")

\* MessageParser.parse
parse(data) ==
    LET r == parse_payload(data)
    IN  IF r.err # "none" THEN ParseErr(r.err) ELSE parse_dispatch(r.payload)

\* what parse writes to stderr: the slot id of every scheduler entry of an
\* accepted 14 00 page that fails its own checksum ("Invalid checksum for
\* scheduler ..."), in wire order
parse_stderr(data) ==
    LET r == parse_payload(data)
    IN  IF r.err # "none" \/ Slice(r.payload, 0, 2) # <<20, 0>>
           \/ parse_dispatch(r.payload).err # "none"
        THEN <<>>
        ELSE LET count == (Len(r.payload) - 3) \div 12
                 slots == [j \in 1..count |-> j - 1]
                 bad   == SelectSeq(slots, LAMBDA i : sub_checksum_mismatch(r.payload, i))
             IN  [j \in 1..Len(bad) |->
                     FromBytes(Slice(r.payload, 3 + bad[j] * 12, 4 + bad[j] * 12))]

\* ------------------------------------------------- notification reassembler
\* SEM6000Delegate.has_final_raw_notification
has_final_raw_notification(frags) ==
    IF Len(frags) = 0 THEN FALSE
    ELSE LET last_notification == frags[Len(frags)]
         IN  IF Len(last_notification) < 2 THEN FALSE
             ELSE IF Slice(last_notification, 2, 4) = <<4, 0>> THEN TRUE
             ELSE LastTwo(last_notification) = <<255, 255>>

\* mutant of consume_notification: the completeness check left out
consume_notification_unguarded(frags) == parse(Concat(frags))

\* SEM6000Delegate.consume_notification: the value returned or the exception
\* raised; the buffer is emptied by the caller's action only when err = "none"
consume_notification(frags) ==
    IF ~has_final_raw_notification(frags) THEN ParseErr("IncompleteNotification")
    ELSE parse(Concat(frags))

\* --------------------------------------------------------- device replies
\* the frame a device puts around a payload: 0F, length, payload, checksum, FF FF
DeviceFrame(payload) ==
    <<15, Len(payload) + 1>> \o payload \o <<(1 + SumBytes(payload)) % 256>> \o <<255, 255>>

\* one 12-byte scheduler entry: slot id, 8 scheduler bytes, 2 unused, checksum
DeviceEntry(slot) == <<slot, 1, 1, 5, 26, 11, 3, 7, 30, 0, 0, 0>>

FAuthOk      == DeviceFrame(<<23, 0, 0, 0, 0>>)
FAuthFail    == DeviceFrame(<<23, 0, 1, 0, 0>>)
FPowerOk     == DeviceFrame(<<3, 0, 0>>)
\* the power reply cut before its last byte, and that last byte
FPowerHead   == SubSeq(FPowerOk, 1, Len(FPowerOk) - 1)
FTail        == <<255>>
\* the measurement reply carries no FF FF
FMeasurement == <<15, 4, 4, 0, 1, 6>>
FPage10      == DeviceFrame(<<20, 0, 10>> \o DeviceEntry(1))
FPage4       == DeviceFrame(<<20, 0, 4>> \o DeviceEntry(2))
\* replies that do not decode: the power reply with a wrong checksum byte,
\* a power reply one byte short, a reply of no known kind
FBadChecksum == <<15, 4, 3, 0, 0, 9, 255, 255>>
FBadLength   == DeviceFrame(<<3, 0>>)
FUnknown     == DeviceFrame(<<99, 0>>)
\* a consumption reply with one month in it
FMonths      == DeviceFrame(<<12, 0, 0, 1, 2, 0>>)
\* the first fragment of a consumption reply whose one month is 00 FF FF:
\* 0F 07 0C 00 00 FF FF, with 00, checksum and FF FF still to come
FMonthsCut   == SubSeq(DeviceFrame(<<12, 0, 0, 255, 255, 0>>), 1, 7)
\* the PIN was changed
FChangePinOk == DeviceFrame(<<23, 0, 0, 1, 0>>)

\* the fragments the transport may deliver
Fragments ==
    {FAuthOk, FAuthFail, FPowerOk, FPowerHead, FTail, FMeasurement, FPage10, FPage4,
     FBadChecksum, FBadLength, FUnknown, FMonths, FMonthsCut, FChangePinOk}

\* ------------------------------------------------------------------ session
None == "None"
Pins == {"1234", "0000"}
Addrs == {"AA:BB"}

Cmd(t, p, pg) == [type |-> t, pin |-> p, page |-> pg]
NoCmd == Cmd("None", "", 0)
ConnectFrame == Cmd("Connect", "", 0)
AuthorizeCommand(p) == Cmd("Authorize", p, 0)
RequestSchedulerCommand(pg) == Cmd("RequestScheduler", "", pg)
\* ChangePinCommand(self.pin, new_pin)
ChangePinCommand(old, new) == [type |-> "ChangePin", pin |-> old, new_pin |-> new, page |-> 0]

\* the simple operations: one command, one reply of one kind
SimpleOps == {"power_on", "request_measurement", "request_consumption_of_last_12_months"}
CommandOf(name) ==
    IF name = "power_on" THEN Cmd("PowerSwitch", "", 0)
    ELSE IF name = "request_measurement" THEN Cmd("RequestMeasurement", "", 0)
    ELSE Cmd("RequestConsumptionOfLast12Months", "", 0)
ExpectedKind(name) ==
    IF name = "power_on" THEN "PowerSwitchNotification"
    ELSE IF name = "request_measurement" THEN "MeasurementRequestedNotification"
    ELSE "ConsumptionOfLast12MonthsRequestedNotification"
NeedsSuccess(name) == name = "power_on"

\* what the operation raises on a reply it does not accept: an Exception with
\* the operation's message, or, where the source raises a bare string
\* (`raise("...")`), the TypeError the interpreter raises for that
FailError(name) ==
    IF name = "power_on" THEN "PowerOnFailed"
    ELSE IF name = "request_measurement" THEN "RequestMeasurementFailed"
    ELSE "TypeError"

NoOp == [name |-> "none", pin |-> ""]

\* what the engine did to the transport and the parser during one operation
Event(ev, cmd, err, n) == [ev |-> ev, cmd |-> cmd, err |-> err, n |-> n]

VARIABLES
    peripheral,  \* self._peripheral: "none" | "held"
    link,        \* the transport's getState() = "conn"
    deviceAddr,  \* connection_settings["deviceAddr"]
    pin,         \* self.pin
    raw,         \* SEM6000Delegate._raw_notifications
    pc,          \* position of the single thread of control
    stack,       \* the _send_command calls in progress, innermost last
    op,          \* the operation the caller invoked
    page,        \* request_scheduler: page_number of the request in flight
    agg,         \* request_scheduler: the first page's notification, extended
    outcome,     \* "none" while running, "ok", or the exception raised
    result,      \* the notification returned to the caller
    trace,       \* transport opens, writes and parser runs of this operation
    delivered,   \* fragments delivered since the last write
    waitEnd,     \* how the last _wait_for_notifications ended
    drops,       \* link drops during this operation
    stale,       \* some _send_command of this operation found fragments buffered
    bytesIn,     \* the bytes handed to the parser when it is run on its own
    parsed       \* what the parser made of `bytesIn`

\* the session and its delegate
engine == <<peripheral, link, deviceAddr, pin, raw, pc, stack, op, page, agg,
            outcome, result, trace, delivered, waitEnd, drops, stale>>

vars == <<engine, bytesIn, parsed>>

\* the parser has not been run on its own
NotParsed == [f |-> "none"]

\* SEM6000.__init__(deviceAddr) without a pin: connected, nothing remembered
EngineInit ==
    /\ peripheral = "held"
    /\ link = TRUE
    /\ deviceAddr \in Addrs
    /\ pin = None
    /\ raw = <<>>
    /\ pc = "idle"
    /\ stack = <<>>
    /\ op = NoOp
    /\ page = 0
    /\ agg = NoNotification
    /\ outcome = "none"
    /\ result = NoNotification
    /\ trace = <<>>
    /\ delivered = <<>>
    /\ waitEnd = "none"
    /\ drops = 0
    /\ stale = FALSE

Init ==
    /\ EngineInit
    /\ bytesIn = <<>>
    /\ parsed = NotParsed

Top == stack[Len(stack)]
Pop == SubSeq(stack, 1, Len(stack) - 1)

\* SEM6000._is_connected
is_connected == peripheral = "held" /\ link

\* an exception leaves every frame; each _reconnect it passes disconnects
\* (`up` is the link state the raising step leaves)
Raise(e, up) ==
    /\ pc' = "done"
    /\ outcome' = e
    /\ result' = NoNotification
    /\ stack' = <<>>
    /\ peripheral' = IF Len(stack) >= 2 THEN "none" ELSE peripheral
    /\ link' = IF Len(stack) >= 2 THEN FALSE ELSE up

\* the operation returns `n` to its caller
Finish(n) ==
    /\ pc' = "done"
    /\ outcome' = "ok"
    /\ result' = n
    /\ stack' = <<>>

\* ------------------------------------------------------ the caller's calls
Begin(o, frame) ==
    /\ pc = "idle"
    /\ op' = o
    /\ stack' = <<frame>>
    /\ UNCHANGED <<peripheral, link, pin, raw, page, agg, outcome, result,
                   trace, delivered, waitEnd, drops, stale, bytesIn, parsed>>

\* SEM6000.connect: remember the address (None is the default of the
\* constructor), then _reconnect
CallConnect ==
    \E a \in Addrs \cup {None} :
        /\ Begin([name |-> "connect", pin |-> ""], ConnectFrame)
        /\ deviceAddr' = a
        /\ pc' = "reconnect"

\* SEM6000.disconnect
CallDisconnect ==
    /\ pc = "idle"
    /\ op' = [name |-> "disconnect", pin |-> ""]
    /\ peripheral' = "none"
    /\ link' = FALSE
    /\ pc' = "done"
    /\ outcome' = "ok"
    /\ UNCHANGED <<deviceAddr, pin, raw, stack, page, agg, result, trace,
                   delivered, waitEnd, drops, stale, bytesIn, parsed>>

\* SEM6000.authorize(pin), up to its _send_command
CallAuthorize ==
    \E p \in Pins :
        /\ Begin([name |-> "authorize", pin |-> p], AuthorizeCommand(p))
        /\ pc' = "send"
        /\ UNCHANGED deviceAddr

\* power_on, request_measurement, request_consumption_of_last_12_months, up to
\* their _send_command
CallSimple ==
    \E name \in SimpleOps :
        /\ Begin([name |-> name, pin |-> ""], CommandOf(name))
        /\ pc' = "send"
        /\ UNCHANGED deviceAddr

\* SEM6000.request_scheduler, up to the _send_command of page 0
CallRequestScheduler ==
    /\ Begin([name |-> "request_scheduler", pin |-> ""], RequestSchedulerCommand(0))
    /\ pc' = "send"
    /\ UNCHANGED deviceAddr

\* SEM6000.change_pin(new_pin), up to its _send_command
CallChangePin ==
    \E p \in Pins :
        /\ Begin([name |-> "change_pin", pin |-> p], ChangePinCommand(pin, p))
        /\ pc' = "send"
        /\ UNCHANGED deviceAddr

\* the call has returned or raised; the caller may call again
Return ==
    /\ pc = "done"
    /\ pc' = "idle"
    /\ op' = NoOp
    /\ page' = 0
    /\ agg' = NoNotification
    /\ outcome' = "none"
    /\ result' = NoNotification
    /\ trace' = <<>>
    /\ delivered' = <<>>
    /\ waitEnd' = "none"
    /\ drops' = 0
    /\ stale' = FALSE
    /\ UNCHANGED <<peripheral, link, deviceAddr, pin, raw, stack, bytesIn, parsed>>

\* ------------------------------------------------------------ _send_command
\* mutant of SendCommand: the buffer is not reset
SendCommandNoReset ==
    /\ pc = "send"
    /\ raw' = raw
    /\ stale' = (stale \/ raw # <<>>)
    /\ IF is_connected
       THEN /\ pc' = "write"
            /\ UNCHANGED <<peripheral, link, stack, outcome, result>>
       ELSE IF deviceAddr # None /\ pin # None
       THEN /\ pc' = "reconnect"
            /\ UNCHANGED <<peripheral, link, stack, outcome, result>>
       ELSE Raise("NotConnected", link)
    /\ UNCHANGED <<deviceAddr, pin, op, page, agg, trace, delivered, waitEnd, drops,
                   bytesIn, parsed>>

\* mutant of SendCommand: reconnects when an address or a PIN is remembered
SendCommandEither ==
    /\ pc = "send"
    /\ raw' = <<>>
    /\ stale' = (stale \/ raw # <<>>)
    /\ IF is_connected
       THEN /\ pc' = "write"
            /\ UNCHANGED <<peripheral, link, stack, outcome, result>>
       ELSE IF deviceAddr # None \/ pin # None
       THEN /\ pc' = "reconnect"
            /\ UNCHANGED <<peripheral, link, stack, outcome, result>>
       ELSE Raise("NotConnected", link)
    /\ UNCHANGED <<deviceAddr, pin, op, page, agg, trace, delivered, waitEnd, drops,
                   bytesIn, parsed>>

\* SEM6000._send_command up to the write: reset the buffer, check the link,
\* reconnect or give up
SendCommand ==
    /\ pc = "send"
    /\ raw' = <<>>
    /\ stale' = (stale \/ raw # <<>>)
    /\ IF is_connected
       THEN /\ pc' = "write"
            /\ UNCHANGED <<peripheral, link, stack, outcome, result>>
       ELSE IF deviceAddr # None /\ pin # None
       THEN /\ pc' = "reconnect"
            /\ UNCHANGED <<peripheral, link, stack, outcome, result>>
       ELSE Raise("NotConnected", link)
    /\ UNCHANGED <<deviceAddr, pin, op, page, agg, trace, delivered, waitEnd, drops,
                   bytesIn, parsed>>

\* mutant of ReconnectOpened: no authorize(self.pin) after the open
ReconnectOpenedNoAuth ==
    /\ pc = "reconnect"
    /\ peripheral' = "held"
    /\ link' = TRUE
    /\ trace' = Append(trace, Event("open", NoCmd, "none", NoNotification))
    /\ IF Top.type # "Connect"
       THEN /\ pc' = "write"
            /\ UNCHANGED <<stack, outcome, result>>
       ELSE /\ pc' = "done"
            /\ outcome' = "ok"
            /\ result' = NoNotification
            /\ stack' = <<>>
    /\ UNCHANGED <<deviceAddr, pin, raw, op, page, agg, delivered, waitEnd, drops, stale,
                   bytesIn, parsed>>

\* SEM6000._reconnect, the transport open succeeding: with a PIN remembered
\* authorize(self.pin) follows, which is a _send_command of its own
ReconnectOpened ==
    /\ pc = "reconnect"
    /\ peripheral' = "held"
    /\ link' = TRUE
    /\ trace' = Append(trace, Event("open", NoCmd, "none", NoNotification))
    /\ IF pin # None
       THEN /\ stack' = Append(stack, AuthorizeCommand(pin))
            /\ pc' = "send"
            /\ UNCHANGED <<outcome, result>>
       ELSE /\ pc' = "done"
            /\ outcome' = "ok"
            /\ result' = NoNotification
            /\ stack' = <<>>
    /\ UNCHANGED <<deviceAddr, pin, raw, op, page, agg, delivered, waitEnd, drops, stale,
                   bytesIn, parsed>>

\* SEM6000._reconnect, the transport open succeeding and getCharacteristics
\* raising (the link lost again, or no such characteristic on the device):
\* nothing in _reconnect catches it, the new Peripheral stays in
\* self._peripheral; an enclosing _reconnect, if any, disconnects
ReconnectDiscoverFailed ==
    /\ pc = "reconnect"
    /\ trace' = Append(trace, Event("open", NoCmd, "none", NoNotification))
    /\ pc' = "done"
    /\ outcome' = "TransportError"
    /\ result' = NoNotification
    /\ stack' = <<>>
    /\ peripheral' = IF Len(stack) >= 2 THEN "none" ELSE "held"
    /\ link' = FALSE
    /\ UNCHANGED <<deviceAddr, pin, raw, op, page, agg, delivered, waitEnd, drops, stale,
                   bytesIn, parsed>>

\* SEM6000._reconnect, the transport open raising BTLEException
ReconnectFailed ==
    /\ pc = "reconnect"
    /\ trace' = Append(trace, Event("open", NoCmd, "BTLEException", NoNotification))
    /\ pc' = "done"
    /\ outcome' = "BTLEException"
    /\ result' = NoNotification
    /\ stack' = <<>>
    /\ peripheral' = "none"
    /\ link' = FALSE
    /\ UNCHANGED <<deviceAddr, pin, raw, op, page, agg, delivered, waitEnd, drops, stale,
                   bytesIn, parsed>>

\* self._control_characteristics.write(encoded_command, with_response)
Write ==
    /\ pc = "write"
    /\ link
    /\ trace' = Append(trace, Event("write", Top, "none", NoNotification))
    /\ delivered' = <<>>
    /\ waitEnd' = "none"
    /\ pc' = "wait"
    /\ UNCHANGED <<peripheral, link, deviceAddr, pin, raw, stack, op, page, agg,
                   outcome, result, drops, stale, bytesIn, parsed>>

\* one turn of _wait_for_notifications in which a fragment arrives:
\* handleNotification appends it, then has_final_raw_notification decides
WaitFragment ==
    \E f \in Fragments :
        /\ pc = "wait"
        /\ link
        /\ Len(raw) < MaxFrags
        /\ raw' = Append(raw, f)
        /\ delivered' = Append(delivered, f)
        /\ IF has_final_raw_notification(raw')
           THEN pc' = "consume" /\ waitEnd' = "final"
           ELSE pc' = "wait" /\ waitEnd' = waitEnd
        /\ UNCHANGED <<peripheral, link, deviceAddr, pin, stack, op, page, agg,
                       outcome, result, trace, drops, stale, bytesIn, parsed>>

\* waitForNotifications(timeout) returns False
WaitTimeout ==
    /\ pc = "wait"
    /\ link
    /\ pc' = "consume"
    /\ waitEnd' = "timeout"
    /\ UNCHANGED <<peripheral, link, deviceAddr, pin, raw, stack, op, page, agg,
                   outcome, result, trace, delivered, drops, stale, bytesIn, parsed>>

\* the link is lost under a write or a wait: the transport call raises
TransportError ==
    /\ pc \in {"write", "wait"}
    /\ Raise("TransportError", FALSE)
    /\ UNCHANGED <<deviceAddr, pin, raw, op, page, agg, trace, delivered,
                   waitEnd, drops, stale, bytesIn, parsed>>

\* the link is lost while no transport call is running
LinkDrop ==
    /\ pc = "idle" \/ (pc = "send" /\ drops < MaxDrops)
    /\ is_connected
    /\ link' = FALSE
    /\ drops' = IF pc = "send" THEN drops + 1 ELSE drops
    /\ UNCHANGED <<peripheral, deviceAddr, pin, raw, pc, stack, op, page, agg,
                   outcome, result, trace, delivered, waitEnd, stale,
                   bytesIn, parsed>>

\* ------------------------------------------- after _send_command has returned
\* self._consume_notification() giving r: the parser ran unless the buffer was
\* incomplete; the buffer is emptied only when a notification comes back
Consumed(r) ==
    /\ raw' = IF r.err = "none" THEN <<>> ELSE raw
    /\ trace' = IF r.err = "IncompleteNotification" THEN trace
                ELSE Append(trace, Event("parse", Top, r.err, r.n))
    /\ delivered' = <<>>

\* SEM6000.authorize after _send_command, called by the caller or by _reconnect
AuthorizeBody ==
    /\ pc = "consume"
    /\ Top.type = "Authorize"
    /\ LET r == consume_notification(raw)
       IN  /\ Consumed(r)
           /\ IF r.err # "none"
              THEN Raise(r.err, link) /\ UNCHANGED pin
              ELSE IF r.n.kind # "AuthorizationNotification"
              THEN Raise("AuthenticationFailed", link) /\ UNCHANGED pin
              ELSE IF r.n.was_successful
              THEN /\ pin' = Top.pin
                   /\ UNCHANGED <<peripheral, link>>
                   /\ IF Len(stack) = 1 THEN Finish(r.n)
                      ELSE IF Pop[Len(Pop)].type = "Connect" THEN Finish(NoNotification)
                      ELSE /\ stack' = Pop
                           /\ pc' = "write"
                           /\ UNCHANGED <<outcome, result>>
              ELSE /\ pin' = None
                   /\ Raise("AuthenticationFailed", link)
    /\ UNCHANGED <<deviceAddr, op, page, agg, waitEnd, drops, stale, bytesIn, parsed>>

\* mutant of SimpleBody: a reply that does not decode is taken for no reply
SimpleBodySwallow ==
    /\ pc = "consume"
    /\ op.name \in SimpleOps
    /\ Top.type # "Authorize"
    /\ LET r == consume_notification(raw)
       IN  /\ Consumed(r)
           /\ IF r.err # "none" THEN Finish(NoNotification) /\ UNCHANGED <<peripheral, link>>
              ELSE IF r.n.kind # ExpectedKind(op.name)
                      \/ (NeedsSuccess(op.name) /\ ~r.n.was_successful)
              THEN Raise(FailError(op.name), link)
              ELSE Finish(r.n) /\ UNCHANGED <<peripheral, link>>
    /\ UNCHANGED <<deviceAddr, pin, op, page, agg, waitEnd, drops, stale, bytesIn, parsed>>

\* power_on, request_measurement, request_consumption_of_last_12_months after
\* _send_command
SimpleBody ==
    /\ pc = "consume"
    /\ op.name \in SimpleOps
    /\ Top.type # "Authorize"
    /\ LET r == consume_notification(raw)
       IN  /\ Consumed(r)
           /\ IF r.err # "none" THEN Raise(r.err, link)
              ELSE IF r.n.kind # ExpectedKind(op.name)
                      \/ (NeedsSuccess(op.name) /\ ~r.n.was_successful)
              THEN Raise(FailError(op.name), link)
              ELSE Finish(r.n) /\ UNCHANGED <<peripheral, link>>
    /\ UNCHANGED <<deviceAddr, pin, op, page, agg, waitEnd, drops, stale, bytesIn, parsed>>

\* SEM6000.change_pin after _send_command: self.pin is left as it was
ChangePinBody ==
    /\ pc = "consume"
    /\ op.name = "change_pin"
    /\ Top.type # "Authorize"
    /\ LET r == consume_notification(raw)
       IN  /\ Consumed(r)
           /\ IF r.err # "none" THEN Raise(r.err, link)
              ELSE IF r.n.kind # "ChangePinNotification" \/ ~r.n.was_successful
              THEN Raise("ChangePinFailed", link)
              ELSE Finish(r.n) /\ UNCHANGED <<peripheral, link>>
    /\ UNCHANGED <<deviceAddr, pin, op, page, agg, waitEnd, drops, stale, bytesIn, parsed>>

\* mutant of max_page_number: one page too many
max_page_number_plus_one(n) == (n \div 4) + 1

\* max_page_number = notification.number_of_schedulers // 4
max_page_number(n) == n \div 4

\* notification.scheduler_entries.extend(further_notification.scheduler_entries)
extend(first, further) ==
    [first EXCEPT !.scheduler_entries = @ \o further.scheduler_entries]

\* request_scheduler with a page accepted: ask for the next one or return
PageAccepted(n) ==
    LET total == IF page = 0 THEN n ELSE extend(agg, n)
    IN  /\ agg' = total
        /\ UNCHANGED <<peripheral, link>>
        /\ IF page + 1 <= max_page_number(total.number_of_schedulers)
           THEN /\ page' = page + 1
                /\ stack' = <<RequestSchedulerCommand(page + 1)>>
                /\ pc' = "send"
                /\ UNCHANGED <<outcome, result>>
           ELSE /\ Finish(total)
                /\ UNCHANGED page

\* mutant of RequestSchedulerBody: a later page of the wrong kind ends the
\* loop and what was gathered so far is returned
RequestSchedulerBodyPartial ==
    /\ pc = "consume"
    /\ op.name = "request_scheduler"
    /\ Top.type # "Authorize"
    /\ LET r == consume_notification(raw)
       IN  /\ Consumed(r)
           /\ IF r.err # "none" THEN Raise(r.err, link) /\ UNCHANGED <<page, agg>>
              ELSE IF r.n.kind # "SchedulerRequestedNotification"
              THEN IF page = 0
                   THEN Raise("RequestSchedulerFailed", link) /\ UNCHANGED <<page, agg>>
                   ELSE Finish(agg) /\ UNCHANGED <<peripheral, link, page, agg>>
              ELSE PageAccepted(r.n)
    /\ UNCHANGED <<deviceAddr, pin, op, waitEnd, drops, stale, bytesIn, parsed>>

\* SEM6000.request_scheduler after each _send_command
RequestSchedulerBody ==
    /\ pc = "consume"
    /\ op.name = "request_scheduler"
    /\ Top.type # "Authorize"
    /\ LET r == consume_notification(raw)
       IN  /\ Consumed(r)
           /\ IF r.err # "none" THEN Raise(r.err, link) /\ UNCHANGED <<page, agg>>
              ELSE IF r.n.kind # "SchedulerRequestedNotification"
              THEN Raise("RequestSchedulerFailed", link) /\ UNCHANGED <<page, agg>>
              ELSE PageAccepted(r.n)
    /\ UNCHANGED <<deviceAddr, pin, op, waitEnd, drops, stale, bytesIn, parsed>>

\* ------------------------------------------------------------ specification
Next ==
    \/ CallConnect
    \/ CallDisconnect
    \/ CallAuthorize
    \/ CallSimple
    \/ CallRequestScheduler
    \/ CallChangePin
    \/ Return
    \/ SendCommand
    \/ ReconnectOpened
    \/ ReconnectDiscoverFailed
    \/ ReconnectFailed
    \/ Write
    \/ WaitFragment
    \/ WaitTimeout
    \/ TransportError
    \/ LinkDrop
    \/ AuthorizeBody
    \/ SimpleBody
    \/ ChangePinBody
    \/ RequestSchedulerBody

Spec == Init /\ [][Next]_vars

\* the wait of one command on a link that stays up, with the buffer kept to its
\* last MaxFrags fragments: has_final_raw_notification reads only the last one,
\* so the turns of the wait loop are those of the unbounded list
WaitFragmentMore ==
    \E f \in Fragments :
        /\ pc = "wait"
        /\ Len(raw) = MaxFrags
        /\ raw' = Append(Tail(raw), f)
        /\ delivered' = Append(Tail(delivered), f)
        /\ IF has_final_raw_notification(raw')
           THEN pc' = "consume" /\ waitEnd' = "final"
           ELSE pc' = "wait" /\ waitEnd' = waitEnd
        /\ UNCHANGED <<peripheral, link, deviceAddr, pin, stack, op, page, agg,
                       outcome, result, trace, drops, stale, bytesIn, parsed>>

NextLive ==
    \/ CallSimple
    \/ Return
    \/ SendCommand
    \/ Write
    \/ WaitFragment
    \/ WaitFragmentMore
    \/ WaitTimeout
    \/ SimpleBody

\* the engine keeps running; nothing obliges the device to fall silent, so the
\* timeout branch of the wait gets no fairness of its own
LiveSpec == Init /\ [][NextLive]_vars /\ WF_vars(NextLive)

\* ------------------------------------------------ the parser on its own
\* MessageParser is a pure function of the bytes it is given: it is run here
\* on every input of a bounded family, apart from any session
MaxBody == 5
MaxDeclared == 3
MaxPayload == 2
MaxEntries == 2

Seqs(S, n) == UNION {[1..k -> S] : k \in 0..n}

\* frames 0F, L, body: every declared length up to MaxDeclared before every
\* body of up to MaxBody bytes, so that payload, checksum byte and trailing
\* bytes take every value and every length the bounds allow
BodyBytes == {0, 1, 2, 255}
CodecFrames ==
    {<<15, l>> \o b : l \in 0..MaxDeclared, b \in Seqs(BodyBytes, MaxBody)}
        \cup {<<>>, <<15>>, <<14, 1, 1>>, <<14, 1, 1, 255, 255>>}

\* frames as the device builds them, one of them of the greatest length the
\* one-byte length field can declare
PayloadBytes == {0, 1, 128, 255}
LongPayload == [i \in 1..254 |-> IF i % 2 = 0 THEN 255 ELSE 3]
RoundTripPayloads == Seqs(PayloadBytes, MaxPayload) \cup {LongPayload}
WrappedFrames == {DeviceFrame(payload) : payload \in RoundTripPayloads}

\* consumption replies: up to MaxEntries records, with and without a byte
\* left over, and one series of eleven records
Records4 == {<<0, 0, 0, 0>>, <<0, 1, 2, 9>>, <<255, 255, 255, 255>>}
Records2 == {<<0, 0>>, <<1, 2>>, <<255, 255>>}
ElevenRecords == [i \in 1..44 |-> i]
ConsumptionPayloads ==
    {prefix \o Concat(records) \o rest :
        prefix \in {<<12, 0>>, <<11, 0>>}, records \in Seqs(Records4, MaxEntries),
        rest \in {<<>>, <<7>>}}
    \cup
    {<<10, 0>> \o Concat(records) \o rest :
        records \in Seqs(Records2, MaxEntries), rest \in {<<>>, <<7>>}}
    \cup
    {prefix \o ElevenRecords : prefix \in {<<12, 0>>, <<11, 0>>, <<10, 0>>}}

\* one scheduler entry and one random mode status for every weekday mask
Masks == 0..255
WeekdayEntry(mask) == <<1, 1, 1, mask, 26, 11, 3, 7, 30, 0, 0, 0>>
RandomModePayload(mask) == <<22, 0, 1, mask, 8, 0, 17, 30>>
WeekdayPayloads ==
    {<<20, 0, 1>> \o WeekdayEntry(mask) : mask \in Masks}
        \cup {RandomModePayload(mask) : mask \in Masks}

\* scheduler pages of every length from 2 up: the declared number of
\* schedulers, then up to MaxEntries entries, the page cut anywhere
PageCuts(payload) == {Slice(payload, 0, n) : n \in 2..Len(payload)}
SchedulerPayloads ==
    UNION {PageCuts(<<20, 0, declared>> \o Concat(entries) \o <<9>>) :
              declared \in {0, 1, 5},
              entries \in Seqs({DeviceEntry(1), DeviceEntry(7)}, MaxEntries)}

\* whole scheduler pages whose entries carry the checksum the decoder
\* computes, or another byte
EntryChecksum(entry) == (SumBytes(SubSeq(entry, 2, 11)) + 20) % 256
EntryWith(slot, checksum) == SubSeq(DeviceEntry(slot), 1, 11) \o <<checksum>>
CheckedEntries ==
    UNION {{EntryWith(slot, checksum) :
               checksum \in {0, 255, EntryChecksum(DeviceEntry(slot))}} : slot \in {1, 7}}
CheckedPayloads ==
    {<<20, 0, declared>> \o Concat(entries) :
        declared \in {1, 5}, entries \in Seqs(CheckedEntries, MaxEntries)}

\* the opcode prefixes of the kinds of one fixed length, each followed by up
\* to MaxPad bytes, so that every one of them comes too short, right and too long
MaxPad == 12
FixedPrefixes ==
    {<<23, 0, 0, 0>>, <<23, 0, 1, 0>>, <<23, 0, 0, 1>>, <<23, 0, 0, 2>>, <<3, 0>>,
     <<15, 0, 5>>, <<1, 0>>, <<16, 0>>, <<5, 0, 0>>, <<15, 0, 4>>, <<15, 0, 1>>,
     <<9, 0>>, <<8, 0>>}
FixedPayloads ==
    {prefix \o [i \in 1..k |-> 0] : prefix \in FixedPrefixes, k \in 0..MaxPad}

\* timer status replies: running, to end on 3 November of wire year 0, 26, 99
TimerPayloads ==
    {<<9, 0, 1, 30, 15, 7, 3, 11, year, 0, 0, 60, 0>> : year \in {0, 26, 99}}

\* power replies with every value of the status byte
PowerPayloads == {<<3, 0, b>> : b \in 0..255}

ParserInputs ==
    CodecFrames \cup WrappedFrames
        \cup {DeviceFrame(payload) :
                 payload \in ConsumptionPayloads \cup WeekdayPayloads \cup SchedulerPayloads
                                \cup CheckedPayloads \cup FixedPayloads
                                \cup TimerPayloads \cup PowerPayloads}

ParseInit ==
    /\ EngineInit
    /\ bytesIn \in ParserInputs
    /\ parsed = NotParsed

\* MessageParser._parse_payload(bytesIn)
Unwrap ==
    /\ parsed = NotParsed
    /\ parsed' = [f |-> "unwrap", r |-> parse_payload(bytesIn)]
    /\ UNCHANGED <<engine, bytesIn>>

\* MessageParser.parse(bytesIn)
Parse ==
    /\ parsed = NotParsed
    /\ parsed' = [f |-> "parse", r |-> parse(bytesIn), stderr |-> parse_stderr(bytesIn)]
    /\ UNCHANGED <<engine, bytesIn>>

ParseNext ==
    \/ Unwrap
    \/ Parse

ParseSpec == ParseInit /\ [][ParseNext]_vars

\* ------------------------------------------------------------------- claims
Opens == Len(SelectSeq(trace, LAMBDA e : e.ev = "open"))
Writes == SelectSeq(trace, LAMBDA e : e.ev = "write")
WrittenCmds == [i \in 1..Len(Writes) |-> Writes[i].cmd]
PageWrites == SelectSeq(trace, LAMBDA e : e.ev = "write" /\ e.cmd.type = "RequestScheduler")
PageEvents == SelectSeq(trace, LAMBDA e : e.cmd.type = "RequestScheduler")
IsPrefix(s, t) == Len(s) <= Len(t) /\ s = SubSeq(t, 1, Len(s))
SchedulerKind == "SchedulerRequestedNotification"

\* the completion predicate as the specification words it, on the concatenation
Complete(data) == LastTwo(data) = <<255, 255>> \/ Slice(data, 2, 4) = <<4, 0>>

\* C1: a send on a link that is down, with address and PIN remembered, opens
\* the transport once, re-authorizes once and writes the command once; no send
\* ever opens the transport more than once.
Cex_C1 ==
    op.name \in SimpleOps =>
        /\ Opens <= 1
        /\ (pc = "done" /\ outcome = "ok" /\ Opens = 1) =>
               WrittenCmds = <<AuthorizeCommand(pin), CommandOf(op.name)>>

\* C2: request_scheduler, the first reply declaring n >= 1 schedulers, sends
\* page 0 and exactly ceil(n/4) - 1 further page requests.
Cex_C2 ==
    (op.name = "request_scheduler" /\ pc = "done" /\ outcome = "ok"
        /\ result.number_of_schedulers >= 1) =>
        Len(PageWrites) = 1 + (((result.number_of_schedulers + 3) \div 4) - 1)

\* C3: with number_of_schedulers = 10 declared by page 0, the page requests
\* are 0, 1, 2 in that order, each written after the reply before it was
\* decoded, and the entries returned are those of page 0, 1, 2 in that order.
Thm_C3 ==
    (op.name = "request_scheduler" /\ agg.kind = SchedulerKind
        /\ agg.number_of_schedulers = 10) =>
        /\ IsPrefix([i \in 1..Len(PageWrites) |-> PageWrites[i].cmd.page], <<0, 1, 2>>)
        /\ \A i \in 1..Len(PageEvents) :
               PageEvents[i].ev = (IF i % 2 = 1 THEN "write" ELSE "parse")
        /\ (pc = "done" /\ outcome = "ok") =>
               /\ Len(PageEvents) = 6
               /\ result.scheduler_entries =
                      PageEvents[2].n.scheduler_entries
                      \o PageEvents[4].n.scheduler_entries
                      \o PageEvents[6].n.scheduler_entries

Wit_C3 ==
    /\ op.name = "request_scheduler" /\ pc = "done" /\ outcome = "ok"
    /\ result.number_of_schedulers = 10
    /\ [i \in 1..Len(result.scheduler_entries) |-> result.scheduler_entries[i].slot_id]
           = <<1, 2, 1>>

\* C4: a reply to a page request that is not a SchedulerRequestedNotification
\* fails request_scheduler: nothing is returned and no page request follows.
WrongPageReply(i) ==
    /\ trace[i].ev = "parse"
    /\ trace[i].cmd.type = "RequestScheduler"
    /\ trace[i].err = "none"
    /\ trace[i].n.kind # SchedulerKind

Thm_C4 ==
    \A i \in 1..Len(trace) :
        WrongPageReply(i) =>
            /\ i = Len(trace)
            /\ pc = "done"
            /\ outcome = "RequestSchedulerFailed"
            /\ result = NoNotification

Wit_C4 ==
    /\ trace # <<>>
    /\ WrongPageReply(Len(trace))
    /\ trace[Len(trace)].cmd.page = 1
    /\ outcome = "RequestSchedulerFailed"

\* C5: authorize(pin) that succeeds remembers pin; authorize that fails with
\* AuthenticationFailed leaves no PIN remembered.
Cex_C5 ==
    (op.name = "authorize" /\ pc = "done") =>
        /\ outcome = "ok" => pin = op.pin
        /\ outcome = "AuthenticationFailed" => pin = None

\* C6: a send on a link that is down with no address or no PIN remembered
\* fails with NotConnected, opens nothing, writes nothing and leaves the PIN
\* and the connection settings as they were.
Thm_C6 ==
    [][(pc = "send" /\ ~is_connected /\ (deviceAddr = None \/ pin = None)) =>
          /\ pc' = "done"
          /\ outcome' = "NotConnected"
          /\ trace' = trace
          /\ pin' = pin
          /\ deviceAddr' = deviceAddr]_vars

Wit_C6 ==
    /\ pc = "done" /\ outcome = "NotConnected"
    /\ ~is_connected /\ pin = None /\ deviceAddr # None
    /\ trace = <<>>

\* C7: the wait for a reply always ends, whatever the device delivers.
Cex_C7 == (pc = "wait") ~> (pc # "wait")

\* C8: a wait that ends by timeout on a buffer that is not complete fails with
\* IncompleteNotification, and the parser is not run on the buffer.
Thm_C8 ==
    (pc = "done" /\ waitEnd = "timeout" /\ ~Complete(Concat(raw))) =>
        /\ outcome = "IncompleteNotification"
        /\ trace[Len(trace)].ev = "write"

Wit_C8 ==
    /\ pc = "done" /\ waitEnd = "timeout"
    /\ raw # <<>> /\ ~Complete(Concat(raw))
    /\ outcome = "IncompleteNotification"

\* C9: the reassembler reports completion exactly when the concatenation of
\* the buffered fragments ends with FF FF or begins with the 04 00 prefix.
Cex_C9 == has_final_raw_notification(raw) <=> Complete(Concat(raw))

\* C10: what a send decodes is the fragments delivered since its command was
\* written, in order of arrival; nothing buffered before the write is in it.
Thm_C10 == pc = "consume" => raw = delivered

Wit_C10 ==
    /\ pc = "consume" /\ stale
    /\ Opens = 1 /\ Top.type # "Authorize"
    /\ Len(raw) = 2

\* C11: a reply that reaches the parser and does not decode (bad header,
\* checksum mismatch, invalid suffix, invalid payload length, unsupported
\* message) fails the operation toward its caller with that decode error:
\* no notification is returned, nothing is written after it, and the
\* operation is not reported as successful.
DecodeError(i) ==
    /\ trace[i].ev = "parse"
    /\ trace[i].err # "none"

Thm_C11 ==
    \A i \in 1..Len(trace) :
        DecodeError(i) =>
            /\ i = Len(trace)
            /\ pc = "done"
            /\ outcome = trace[i].err
            /\ outcome # "ok"
            /\ result = NoNotification

Wit_C11 ==
    /\ trace # <<>>
    /\ DecodeError(Len(trace))
    /\ trace[Len(trace)].err = "InvalidSuffix"
    /\ op.name = "power_on"
    /\ pc = "done" /\ outcome = "InvalidSuffix"

\* C12: a reply that decodes to another kind than the command expects, or to
\* was_successful = false where success is expected, fails the operation with
\* an error of that command's own and returns no notification.
OwnError(name) ==
    IF name = "power_on" THEN "PowerOnFailed"
    ELSE IF name = "request_measurement" THEN "RequestMeasurementFailed"
    ELSE "RequestConsumptionOfLast12MonthsFailed"

Refused(i) ==
    /\ op.name \in SimpleOps
    /\ trace[i].ev = "parse"
    /\ trace[i].err = "none"
    /\ trace[i].cmd = CommandOf(op.name)
    /\ \/ trace[i].n.kind # ExpectedKind(op.name)
       \/ (NeedsSuccess(op.name) /\ ~trace[i].n.was_successful)

Cex_C12 ==
    \A i \in 1..Len(trace) :
        Refused(i) =>
            /\ pc = "done"
            /\ outcome = OwnError(op.name)
            /\ result = NoNotification

\* C13: after disconnect() the reassembler's fragment buffer is empty.
Cex_C13 == (op.name = "disconnect" /\ pc = "done") => raw = <<>>

\* the parts of the frame in bytesIn, as the length byte declares them
Declared == bytesIn[2]
FramePayload == Slice(bytesIn, 2, 2 + Declared - 1)
FrameChecksum == bytesIn[2 + Declared]
FrameSuffix == Slice(bytesIn, 2 + Declared, Len(bytesIn))
HasChecksumByte ==
    /\ Len(bytesIn) >= 2
    /\ bytesIn[1] = 15
    /\ Declared >= 1
    /\ Len(bytesIn) >= 2 + Declared
Unwrapped == parsed.f = "unwrap"

\* C14: a frame with header 0F and length byte L >= 1 whose checksum byte, the
\* one after the L - 1 payload bytes, is not (1 + sum of the payload) mod 256
\* is rejected by the unwrapping, whatever the length of the payload.
Thm_C14 ==
    (Unwrapped /\ HasChecksumByte
        /\ FrameChecksum # (1 + SumBytes(FramePayload)) % 256) =>
        parsed.r.err = "InvalidChecksum"

Wit_C14 ==
    /\ Unwrapped /\ HasChecksumByte
    /\ Declared = 3
    /\ FrameChecksum = SumBytes(FramePayload) % 256
    /\ FrameSuffix = <<255, 255>>
    /\ parsed.r.err = "InvalidChecksum"

\* C15: on a frame whose header, length and checksum are valid, trailing bytes
\* that are not exactly FF FF (one byte, two other bytes, more than two bytes)
\* are rejected as an invalid suffix; no trailing bytes, or exactly FF FF, are
\* not rejected.
ValidUpToChecksum ==
    /\ HasChecksumByte
    /\ FrameChecksum = (1 + SumBytes(FramePayload)) % 256

Thm_C15 ==
    (Unwrapped /\ ValidUpToChecksum) =>
        IF FrameSuffix \in {<<>>, <<255, 255>>}
        THEN parsed.r = PayloadOk(FramePayload)
        ELSE parsed.r.err = "InvalidSuffix"

Wit_C15 ==
    /\ Unwrapped /\ ValidUpToChecksum
    /\ FrameSuffix = <<255, 255, 255>>
    /\ parsed.r.err = "InvalidSuffix"

\* C16: for every payload P that fits the one-byte length field, unwrapping
\* the frame 0F, len(P) + 1, P, (1 + sum(P)) mod 256, FF FF gives back P.
Thm_C16 ==
    \A payload \in RoundTripPayloads :
        (Unwrapped /\ bytesIn = DeviceFrame(payload)) => parsed.r = PayloadOk(payload)

Wit_C16 ==
    /\ Unwrapped
    /\ bytesIn = DeviceFrame(LongPayload)
    /\ bytesIn[2] = 255
    /\ parsed.r = PayloadOk(LongPayload)

\* the payload of the frame in bytesIn, the frame being one the device built
Carried == Slice(bytesIn, 2, Len(bytesIn) - 3)
Decoded(prefix) ==
    /\ parsed.f = "parse"
    /\ bytesIn = DeviceFrame(Carried)
    /\ Slice(Carried, 0, 2) = prefix
Series == parsed.r.n.consumption
HasNone(series) == \E j \in 1..Len(series) : series[j] = NoneValue

\* C17 as claimed: every consumption series decoded (12 months, 30 days,
\* 23 hours) has None at index 0.
Cex_C17 ==
    (Decoded(<<12, 0>>) \/ Decoded(<<11, 0>>) \/ Decoded(<<10, 0>>)) =>
        /\ parsed.r.err = "none"
        /\ Len(Series) >= 1 => Series[1] = NoneValue

\* C17: the 12-months and the 30-days series have None at index 0 and numbers
\* after it; the 23-hours series has no None in it, its index 0 is the value
\* of the record transmitted last.
Thm_C17 ==
    /\ (Decoded(<<12, 0>>) \/ Decoded(<<11, 0>>)) =>
           /\ parsed.r.err = "none"
           /\ Len(Series) >= 1
           /\ Series[1] = NoneValue
           /\ ~HasNone(Tail(Series))
    /\ Decoded(<<10, 0>>) =>
           /\ parsed.r.err = "none"
           /\ ~HasNone(Series)
           /\ Len(Series) = (Len(Carried) - 2) \div 2
           /\ (Len(Carried) >= 4 /\ Len(Carried) % 2 = 0) =>
                  Series[1] = Carried[Len(Carried) - 1] * 256 + Carried[Len(Carried)]

Wit_C17 ==
    /\ Decoded(<<10, 0>>)
    /\ Carried = <<10, 0, 1, 2, 255, 255>>
    /\ Series = <<65535, 258>>

\* C18: a 0C 00 payload of 2 + 4k bytes decodes to k + 1 elements, None first,
\* element j (1 <= j <= k) the big-endian value of the first 3 bytes of the
\* 4-byte record number k - j: the values in reverse order of transmission.
Thm_C18 ==
    (Decoded(<<12, 0>>) /\ (Len(Carried) - 2) % 4 = 0) =>
        LET k == (Len(Carried) - 2) \div 4
        IN  /\ parsed.r.err = "none"
            /\ parsed.r.n.kind = "ConsumptionOfLast12MonthsRequestedNotification"
            /\ Len(Series) = k + 1
            /\ Series[1] = NoneValue
            /\ \A j \in 1..k :
                   LET at == 2 + 4 * (k - j)
                   IN  Series[j + 1] =
                           Carried[at + 1] * 65536 + Carried[at + 2] * 256 + Carried[at + 3]

Wit_C18 ==
    /\ Decoded(<<12, 0>>)
    /\ Carried = <<12, 0>> \o ElevenRecords
    /\ Len(Series) = 12
    /\ Series[2] = 41 * 65536 + 42 * 256 + 43
    /\ Series[12] = 1 * 65536 + 2 * 256 + 3

\* C19: for every subset S of {0..6}, the mask with bit w set for each w in S
\* decodes to exactly S, each index once, in a scheduler entry and in the
\* random mode status alike.
Bit(S, w) == IF w \in S THEN 2 ^ w ELSE 0
MaskOf(S) == Bit(S, 0) + Bit(S, 1) + Bit(S, 2) + Bit(S, 3) + Bit(S, 4) + Bit(S, 5) + Bit(S, 6)
Exactly(list, S) ==
    /\ Len(list) = Cardinality(S)
    /\ {list[i] : i \in 1..Len(list)} = S

Thm_C19 ==
    /\ Decoded(<<22, 0>>) =>
           \A S \in SUBSET (0..6) :
               Carried = RandomModePayload(MaskOf(S)) =>
                   /\ parsed.r.err = "none"
                   /\ Exactly(parsed.r.n.active_on_weekdays, S)
    /\ Decoded(<<20, 0>>) =>
           \A S \in SUBSET (0..6) :
               Carried = <<20, 0, 1>> \o WeekdayEntry(MaskOf(S)) =>
                   /\ parsed.r.err = "none"
                   /\ Exactly(parsed.r.n.scheduler_entries[1].scheduler.repeat_on_weekdays, S)

Wit_C19 ==
    /\ Decoded(<<20, 0>>)
    /\ Carried = <<20, 0, 1>> \o WeekdayEntry(MaskOf({0, 2, 6}))
    /\ parsed.r.n.scheduler_entries[1].scheduler.repeat_on_weekdays = <<0, 2, 6>>

\* C20: a 14 00 page of n bytes is accepted only if n >= 3 and (n - 3) mod 12
\* = 0, and is refused otherwise with InvalidPayloadLength whose actual length
\* is n; an accepted page gives (n - 3) / 12 entries in wire order, entry i
\* with the slot id of byte 3 + 12 i, whatever byte 2 declares.
Thm_C20 ==
    Decoded(<<20, 0>>) =>
        LET n == Len(Carried)
        IN  IF n >= 3 /\ (n - 3) % 12 = 0
            THEN /\ parsed.r.err = "none"
                 /\ parsed.r.n.kind = SchedulerKind
                 /\ Len(parsed.r.n.scheduler_entries) = (n - 3) \div 12
                 /\ \A i \in 0..(((n - 3) \div 12) - 1) :
                        parsed.r.n.scheduler_entries[i + 1].slot_id = Carried[3 + 12 * i + 1]
            ELSE /\ parsed.r.err = "InvalidPayloadLength"
                 /\ parsed.r.actual = n
                 /\ parsed.r.n = NoNotification

Wit_C20 ==
    /\ Decoded(<<20, 0>>)
    /\ Carried = <<20, 0, 5>> \o DeviceEntry(7) \o DeviceEntry(1)
    /\ parsed.r.n.number_of_schedulers = 5
    /\ Len(parsed.r.n.scheduler_entries) = 2
    /\ parsed.r.n.scheduler_entries[1].slot_id = 7
    /\ parsed.r.n.scheduler_entries[2].slot_id = 1

\* C21: the checksum of a scheduler entry is not fatal: a well-formed page
\* decodes, with one entry per 12 bytes, to what the same page decodes to
\* with every entry checksum byte blanked; so two pages that differ only in
\* those bytes give the same number_of_schedulers and the same entries.
Blanked(payload) ==
    [i \in 1..Len(payload) |-> IF i > 3 /\ (i - 3) % 12 = 0 THEN 0 ELSE payload[i]]
WellFormedPage ==
    /\ Decoded(<<20, 0>>)
    /\ Len(Carried) >= 3
    /\ (Len(Carried) - 3) % 12 = 0

Thm_C21 ==
    WellFormedPage =>
        /\ parsed.r.err = "none"
        /\ Len(parsed.r.n.scheduler_entries) = (Len(Carried) - 3) \div 12
        /\ parsed.r = parse(DeviceFrame(Blanked(Carried)))

Wit_C21 ==
    /\ WellFormedPage
    /\ Carried = <<20, 0, 5>> \o EntryWith(1, 255) \o EntryWith(7, EntryChecksum(DeviceEntry(7)))
    /\ parsed.stderr = <<1>>
    /\ Len(parsed.r.n.scheduler_entries) = 2
    /\ parsed.r.n.scheduler_entries[1].slot_id = 1

\* C22: a payload that carries the opcode prefix of a kind of one fixed length
\* (17 00 _ 00 and 17 00 _ 01: 5 bytes; 03 00: 3; 0F 00 05: 4; 10 00: 13;
\* 09 00: 13; 05 00 00: 3) and has another length fails with
\* InvalidPayloadLength, expected the fixed length and actual the length
\* seen, and no notification comes back.
FixedLengthOf(payload) ==
    IF Slice(payload, 0, 2) = <<23, 0>> /\ Slice(payload, 3, 4) \in {<<0>>, <<1>>} THEN 5
    ELSE IF Slice(payload, 0, 2) = <<3, 0>> THEN 3
    ELSE IF Slice(payload, 0, 3) = <<15, 0, 5>> THEN 4
    ELSE IF Slice(payload, 0, 2) = <<16, 0>> THEN 13
    ELSE IF Slice(payload, 0, 2) = <<9, 0>> THEN 13
    ELSE IF Slice(payload, 0, 3) = <<5, 0, 0>> THEN 3
    ELSE 0

Cex_C22 ==
    (parsed.f = "parse" /\ bytesIn = DeviceFrame(Carried)
        /\ FixedLengthOf(Carried) # 0 /\ Len(Carried) # FixedLengthOf(Carried)) =>
        /\ parsed.r.err = "InvalidPayloadLength"
        /\ parsed.r.expected = FixedLengthOf(Carried)
        /\ parsed.r.actual = Len(Carried)
        /\ parsed.r.n = NoNotification

\* C23: every year the decoder returns is the two-digit wire year plus the
\* century of the current year: the year of each scheduler entry and the
\* target year of the timer status.
Century == NowYear - (NowYear % 100)

Cex_C23 ==
    /\ WellFormedPage =>
           \A i \in 1..Len(parsed.r.n.scheduler_entries) :
               parsed.r.n.scheduler_entries[i].scheduler.year
                   = Carried[8 + 12 * (i - 1)] + Century
    /\ (Decoded(<<9, 0>>) /\ Len(Carried) = 13) =>
           parsed.r.n.target_year = Carried[9] + Century

\* C24: a 3-byte payload 03 00 b decodes to a PowerSwitchNotification that
\* was successful exactly when b is 00, for every value of b.
Thm_C24 ==
    (Decoded(<<3, 0>>) /\ Len(Carried) = 3) =>
        /\ parsed.r.err = "none"
        /\ parsed.r.n.kind = "PowerSwitchNotification"
        /\ parsed.r.n.was_successful = (Carried[3] = 0)

Wit_C24 ==
    /\ Decoded(<<3, 0>>)
    /\ Carried = <<3, 0, 1>>
    /\ parsed.r.n = [kind |-> "PowerSwitchNotification", was_successful |-> FALSE]

\* C25: after a successful change_pin(new_pin) the remembered PIN, the one a
\* later implicit reconnect re-authorizes with, is the new PIN
Cex_C25 ==
    (pc = "done" /\ op.name = "change_pin" /\ outcome = "ok") => pin = op.pin

\* the last transport open before event i of the operation's log, 0 if none
LastOpenBefore(i) ==
    LET opens == {o \in 1..(i - 1) : trace[o].ev = "open"}
    IN  IF opens = {} THEN 0 ELSE CHOOSE o \in opens : \A q \in opens : q <= o
ReauthorizedBetween(o, i) ==
    \E j, k \in (o + 1)..(i - 1) :
        /\ j < k
        /\ trace[j].ev = "write" /\ trace[j].cmd.type = "Authorize"
        /\ trace[k].ev = "parse" /\ trace[k].cmd = trace[j].cmd
        /\ trace[k].err = "none"
        /\ trace[k].n.kind = "AuthorizationNotification"
        /\ trace[k].n.was_successful

\* C26: on the implicit-reconnect path the original command's frame is written
\* only after the transport open succeeded, the Authorize frame was written
\* and its reply was decoded as a successful AuthorizationNotification; after
\* a failed open or a failed re-authorization it is never written
Thm_C26 ==
    \A i \in 1..Len(trace) :
        (trace[i].ev = "write" /\ trace[i].cmd.type # "Authorize" /\ LastOpenBefore(i) > 0)
            => /\ trace[LastOpenBefore(i)].err = "none"
               /\ ReauthorizedBetween(LastOpenBefore(i), i)
Wit_C26 ==
    /\ pc = "done" /\ outcome = "ok" /\ op.name = "power_on"
    /\ Opens = 1
    /\ trace[1].ev = "open"
    /\ WrittenCmds = <<AuthorizeCommand(pin), CommandOf("power_on")>>

\* control is inside SEM6000._reconnect, or inside the authorize it calls
InReconnect ==
    \/ pc = "reconnect"
    \/ Len(stack) >= 2 /\ pc \in {"send", "write", "wait", "consume"}
\* the reply in hand is the device rejecting the authorization
AuthorizationRejected ==
    /\ pc = "consume"
    /\ consume_notification(raw).err = "none"
    /\ consume_notification(raw).n.kind = "AuthorizationNotification"
    /\ ~consume_notification(raw).n.was_successful

\* C27: a reconnect that fails ends the command with the reconnect's error,
\* no transport handle held and the link down; when the failure is the device
\* rejecting the re-authorization the remembered PIN is cleared as well
Cex_C27 ==
    [][(InReconnect /\ pc' = "done" /\ outcome' # "ok")
          => /\ peripheral' = "none"
             /\ ~link'
             /\ result' = NoNotification
             /\ AuthorizationRejected => (pin' = None /\ outcome' = "AuthenticationFailed")]_vars

\* C28: when the reassembler reports completion for a reply that is not a
\* measurement and the wait loop stops, the buffer holds the whole frame its
\* length byte declares, 2 + length bytes and then the terminator; it never
\* stops on a strict prefix of that frame.
Cex_C28 ==
    LET buffered == Concat(raw)
    IN  (/\ pc = "consume" /\ waitEnd = "final"
         /\ Len(buffered) >= 2 /\ buffered[1] = 15
         /\ Slice(buffered, 2, 4) # <<4, 0>>
         /\ Len(buffered) <= 2 + buffered[2] + 2)
            => /\ Len(buffered) = 2 + buffered[2] + 2
               /\ LastTwo(buffered) = <<255, 255>>

====
